---- MODULE Spec2Model ----
(***************************************************************************)
(* A model of src/src/App.tsx: the arithmetic helpers (isPrime,            *)
(* smallestFactor, primeFactors, normalizeFactorsInput, multisetEqual,     *)
(* productOf), the exercise generator, the quiz page ExerciciosPage        *)
(* (submit, next, the session effect), the prime game PrimeHunt, the       *)
(* animated factorization FatoracaoPage, and the persisted stats record.   *)
(*                                                                         *)
(* A text is a sequence of characters; a character is a one-element        *)
(* string, except the characters that are no ASCII letters, which carry a  *)
(* name: "MUL" (U+00D7), "MIDDOT" (U+00B7), "TAB", "NL", "a~" and "A~"     *)
(* (a with tilde, lower and upper case).                                   *)
(*                                                                         *)
(* A JavaScript number is a record [num, scale] standing for               *)
(* num / 10^scale, normalised so that scale = 0 or num is no multiple of   *)
(* 10; NaN is the record NaN.  The helpers that the code only calls on     *)
(* integers take and return TLA+ integers.                                 *)
(***************************************************************************)
EXTENDS Integers, Sequences, FiniteSets, TLC

VARIABLES
    round,          \* ExerciciosPage: useState(1)
    ex,             \* ExerciciosPage: the current exercise
    input,          \* ExerciciosPage: the text of the answer box
    feedback,       \* ExerciciosPage: null or {correct, explain, expected}
    score,          \* ExerciciosPage: points of the running series
    stats,          \* statsRef.current: the record's own fields
    shared,         \* whether statsRef.current's nested objects are defaultStats'
    defaultStats,   \* the nested objects of the module-level defaultStats
    storage,        \* localStorage[STORAGE_KEY]: a saved record or nothing
    arg,            \* the argument of a direct call of a helper
    ret,            \* the result of that call
    route,          \* the path of the page on screen
    clicked,        \* PrimeHunt: the answered cells, "correct" or "wrong"
    msg,            \* PrimeHunt: the message above the grid, or null
    fatN,           \* FatoracaoPage: n, the number in the input
    steps,          \* FatoracaoPage: the steps of the division
    shown,          \* FatoracaoPage: how many steps are on screen
    playing,        \* FatoracaoPage: the Auto button was pressed
    timer           \* FatoracaoPage: the interval of timerRef is running

vars == <<round, ex, input, feedback, score, stats, shared, defaultStats,
          storage, arg, ret, route, clicked, msg, fatN, steps, shown, playing,
          timer>>

huntVars == <<clicked, msg>>

animVars == <<fatN, steps, shown, playing, timer>>

pageVars == <<round, ex, input, feedback, score, stats, shared, defaultStats,
              storage>>

----------------------------------------------------------------------------
(* Utilidades de Matematica *)

RECURSIVE isPrimeLoop(_, _)
isPrimeLoop(n, d) ==
    IF d * d <= n
    THEN IF n % d = 0 THEN FALSE ELSE isPrimeLoop(n, d + 2)
    ELSE TRUE

RECURSIVE isPrimeLoop_Strict(_, _)
isPrimeLoop_Strict(n, d) ==
    IF d * d < n
    THEN IF n % d = 0 THEN FALSE ELSE isPrimeLoop_Strict(n, d + 2)
    ELSE TRUE

\* isPrime with the loop bound d * d < n
isPrime_StrictBound(n) ==
    IF n < 2 THEN FALSE
    ELSE IF n = 2 THEN TRUE
    ELSE IF n % 2 = 0 THEN FALSE
    ELSE isPrimeLoop_Strict(n, 3)

isPrime(n) ==
    IF n < 2 THEN FALSE
    ELSE IF n = 2 THEN TRUE
    ELSE IF n % 2 = 0 THEN FALSE
    ELSE isPrimeLoop(n, 3)

\* null
Null == 0

RECURSIVE smallestFactorLoop(_, _)
smallestFactorLoop(n, d) ==
    IF d * d <= n
    THEN IF n % d = 0 THEN d ELSE smallestFactorLoop(n, d + 2)
    ELSE Null

smallestFactor(n) ==
    IF n < 2 THEN Null
    ELSE IF n % 2 = 0 THEN 2
    ELSE smallestFactorLoop(n, 3)

\* the inner loop of primeFactors: while (x % d === 0) { push(d); x = x / d }
RECURSIVE divideOut(_, _, _)
divideOut(x, d, factors) ==
    IF x % d = 0
    THEN divideOut(x \div d, d, Append(factors, d))
    ELSE [x |-> x, factors |-> factors]

RECURSIVE primeFactorsLoop(_, _, _)
primeFactorsLoop(x, d, factors) ==
    IF x >= 2 /\ d * d <= x
    THEN LET r == divideOut(x, d, factors)
         IN  primeFactorsLoop(r.x, IF d = 2 THEN 3 ELSE d + 2, r.factors)
    ELSE IF x > 1 THEN Append(factors, x) ELSE factors

RECURSIVE primeFactorsLoop_DropResidual(_, _, _)
primeFactorsLoop_DropResidual(x, d, factors) ==
    IF x >= 2 /\ d * d <= x
    THEN LET r == divideOut(x, d, factors)
         IN  primeFactorsLoop_DropResidual(r.x, IF d = 2 THEN 3 ELSE d + 2, r.factors)
    ELSE factors

\* primeFactors without the final "if (x > 1) factors.push(x)"
primeFactors_DropResidual(n) == primeFactorsLoop_DropResidual(n, 2, <<>>)

primeFactors(n) == primeFactorsLoop(n, 2, <<>>)

RECURSIVE productOf(_)
productOf(arr) ==
    IF arr = <<>> THEN 1 ELSE productOf(SubSeq(arr, 1, Len(arr) - 1)) * arr[Len(arr)]

----------------------------------------------------------------------------
(* Texts and JavaScript numbers *)

Digits == <<"0", "1", "2", "3", "4", "5", "6", "7", "8", "9">>

IsDigit(c) == \E i \in 1..Len(Digits) : Digits[i] = c

DigitVal(c) == (CHOOSE i \in 1..Len(Digits) : Digits[i] = c) - 1

\* String.prototype.toLowerCase, one character
LowerChar(c) ==
    CASE c = "X" -> "x"
      [] c = "S" -> "s"
      [] c = "N" -> "n"
      [] c = "I" -> "i"
      [] c = "M" -> "m"
      [] c = "O" -> "o"
      [] c = "A" -> "a"
      [] c = "B" -> "b"
      [] c = "E" -> "e"
      [] c = "A~" -> "a~"
      [] OTHER -> c

toLowerCase(t) == [i \in 1..Len(t) |-> LowerChar(t[i])]

\* the class \s of a regular expression, which is also what trim() removes
IsSpace(c) == c \in {" ", "TAB", "NL"}

\* text.replace(/[...]/g, " ") for a class of single characters
replaceClass(t, class) == [i \in 1..Len(t) |-> IF t[i] \in class THEN " " ELSE t[i]]

\* text.replace(/\s+/g, " ")
RECURSIVE collapseSpaces(_)
collapseSpaces(t) ==
    IF t = <<>> THEN <<>>
    ELSE IF IsSpace(t[1])
         THEN IF Len(t) > 1 /\ IsSpace(t[2])
              THEN collapseSpaces(Tail(t))
              ELSE <<" ">> \o collapseSpaces(Tail(t))
         ELSE <<t[1]>> \o collapseSpaces(Tail(t))

RECURSIVE trimStart(_)
trimStart(t) ==
    IF t # <<>> /\ IsSpace(t[1]) THEN trimStart(Tail(t)) ELSE t

RECURSIVE trimEnd(_)
trimEnd(t) ==
    IF t # <<>> /\ IsSpace(t[Len(t)]) THEN trimEnd(SubSeq(t, 1, Len(t) - 1)) ELSE t

trim(t) == trimEnd(trimStart(t))

\* text.split(" "): the pieces between the spaces, empty pieces included
RECURSIVE splitLoop(_, _, _)
splitLoop(t, cur, acc) ==
    IF t = <<>> THEN Append(acc, cur)
    ELSE IF t[1] = " "
         THEN splitLoop(Tail(t), <<>>, Append(acc, cur))
         ELSE splitLoop(Tail(t), Append(cur, t[1]), acc)

split(t) == splitLoop(t, <<>>, <<>>)

RECURSIVE pow10(_)
pow10(k) == IF k = 0 THEN 1 ELSE 10 * pow10(k - 1)

Finite(m, sc) == [cls |-> "finite", num |-> m, scale |-> sc]
NaN == [cls |-> "NaN", num |-> 0, scale |-> 0]
Infinity == [cls |-> "Infinity", num |-> 0, scale |-> 0]

\* the number m * 10^e, normalised
RECURSIVE Scaled(_, _)
Scaled(m, e) ==
    IF m = 0 THEN Finite(0, 0)
    ELSE IF e >= 0 THEN Finite(m * pow10(e), 0)
    ELSE IF m % 10 = 0 THEN Scaled(m \div 10, e + 1)
    ELSE Finite(m, 0 - e)

\* the value of a run of digits in a base
RECURSIVE digitsValue(_, _)
digitsValue(ds, base) ==
    IF ds = <<>> THEN 0
    ELSE digitsValue(SubSeq(ds, 1, Len(ds) - 1), base) * base + DigitVal(ds[Len(ds)])

\* the longest prefix of digits
RECURSIVE digitPrefix(_)
digitPrefix(t) ==
    IF t # <<>> /\ IsDigit(t[1]) THEN <<t[1]>> \o digitPrefix(Tail(t)) ELSE <<>>

Drop(t, k) == SubSeq(t, k + 1, Len(t))

AllDigitsBelow(t, base) ==
    t # <<>> /\ \A i \in 1..Len(t) : IsDigit(t[i]) /\ DigitVal(t[i]) < base

\* StrUnsignedDecimalLiteral, multiplied by sign: digits [. digits] [e [sign] digits]
unsignedDecimal(t, sign) ==
    LET ip   == digitPrefix(t)
        r1   == Drop(t, Len(ip))
        dot  == r1 # <<>> /\ r1[1] = "."
        fp   == IF dot THEN digitPrefix(Tail(r1)) ELSE <<>>
        r2   == IF dot THEN Drop(r1, 1 + Len(fp)) ELSE r1
        hasE == r2 # <<>> /\ r2[1] \in {"e", "E"}
        r3   == IF hasE THEN Tail(r2) ELSE r2
        eNeg == hasE /\ r3 # <<>> /\ r3[1] = "-"
        r4   == IF hasE /\ r3 # <<>> /\ r3[1] \in {"+", "-"} THEN Tail(r3) ELSE r3
        ed   == IF hasE THEN digitPrefix(r4) ELSE <<>>
        r5   == Drop(r4, Len(ed))
        e    == IF eNeg THEN 0 - digitsValue(ed, 10) ELSE digitsValue(ed, 10)
    IN  IF t = <<"I", "n", "f", "i", "n", "i", "t", "y">> THEN Infinity
        ELSE IF Len(ip) + Len(fp) = 0 THEN NaN
        ELSE IF hasE /\ ed = <<>> THEN NaN
        ELSE IF r5 # <<>> THEN NaN
        ELSE Scaled(sign * digitsValue(ip \o fp, 10), e - Len(fp))

\* Number(text): StringToNumber
Number(text) ==
    LET t == trim(text)
    IN  IF t = <<>> THEN Finite(0, 0)
        ELSE IF Len(t) >= 2 /\ t[1] = "0" /\ t[2] \in {"b", "B"}
             THEN IF AllDigitsBelow(Drop(t, 2), 2)
                  THEN Finite(digitsValue(Drop(t, 2), 2), 0) ELSE NaN
        ELSE IF Len(t) >= 2 /\ t[1] = "0" /\ t[2] \in {"o", "O"}
             THEN IF AllDigitsBelow(Drop(t, 2), 8)
                  THEN Finite(digitsValue(Drop(t, 2), 8), 0) ELSE NaN
        ELSE IF t[1] = "-" THEN unsignedDecimal(Tail(t), 0 - 1)
        ELSE IF t[1] = "+" THEN unsignedDecimal(Tail(t), 1)
        ELSE unsignedDecimal(t, 1)

isFinite(v) == v.cls = "finite"

isInteger(v) == v.cls = "finite" /\ v.scale = 0

\* String(n) for an integer n
RECURSIVE natToStr(_)
natToStr(n) ==
    IF n < 10 THEN <<Digits[n + 1]>> ELSE Append(natToStr(n \div 10), Digits[(n % 10) + 1])

String(n) == IF n < 0 THEN <<"-">> \o natToStr(0 - n) ELSE natToStr(n)

\* arr.join(sep) for an array of integers
RECURSIVE join(_, _)
join(arr, sep) ==
    IF arr = <<>> THEN <<>>
    ELSE IF Len(arr) = 1 THEN String(arr[1])
    ELSE String(arr[1]) \o sep \o join(Tail(arr), sep)

\* arr.filter((n) => Number.isFinite(n))
RECURSIVE filterFinite(_)
filterFinite(arr) ==
    IF arr = <<>> THEN <<>>
    ELSE IF isFinite(arr[1]) THEN <<arr[1]>> \o filterFinite(Tail(arr))
    ELSE filterFinite(Tail(arr))

\* normalizeFactorsInput that splits before collapsing the runs of spaces
normalizeFactorsInput_NoCollapse(text) ==
    LET cleaned == trim(replaceClass(replaceClass(toLowerCase(text),
                       {"MUL", "x", "X", "*", "MIDDOT"}), {";", ","}))
        toks    == split(cleaned)
    IN  IF cleaned = <<>> THEN <<>>
        ELSE filterFinite([i \in 1..Len(toks) |-> Number(toks[i])])

normalizeFactorsInput(text) ==
    LET cleaned == trim(collapseSpaces(replaceClass(replaceClass(toLowerCase(text),
                       {"MUL", "x", "X", "*", "MIDDOT"}), {";", ","})))
        toks    == split(cleaned)
    IN  IF cleaned = <<>> THEN <<>>
        ELSE filterFinite([i \in 1..Len(toks) |-> Number(toks[i])])

\* multisetEqual that compares the arrays as they come, unsorted
multisetEqual_NoSort(a, b) ==
    IF Len(a) # Len(b) THEN FALSE
    ELSE \A i \in 1..Len(a) : a[i] = b[i]

\* multisetEqual without its test of the lengths
multisetEqual_NoLength(a, b) ==
    LET aa == SortSeq(a, LAMBDA x, y : x < y)
        bb == SortSeq(b, LAMBDA x, y : x < y)
    IN  \A i \in 1..Len(aa) : i <= Len(bb) /\ aa[i] = bb[i]

multisetEqual(a, b) ==
    IF Len(a) # Len(b) THEN FALSE
    ELSE LET aa == SortSeq(a, LAMBDA x, y : x < y)
             bb == SortSeq(b, LAMBDA x, y : x < y)
         IN  \A i \in 1..Len(aa) : aa[i] = bb[i]

----------------------------------------------------------------------------
(* Persistencia: the stats record *)

TYPES == <<"divisibilidade", "primos", "fatoracao", "potenciacao", "resto">>

TypeSet == {TYPES[i] : i \in 1..Len(TYPES)}

\* the nested objects of defaultStats as the module creates them
\* (achievements: the set of the keys that have a date)
DefaultNested ==
    [perTopic     |-> [t \in TypeSet |-> [correct |-> 0, wrong |-> 0]],
     medals       |-> <<>>,
     achievements |-> {}]

\* the fields of defaultStats that hold numbers and booleans
DefaultScalars ==
    [xp |-> 0, bestFiveScore |-> 0, sessions |-> 0, totalQuestions |-> 0,
     correctQuestions |-> 0, primeHuntCompleted |-> FALSE]

ScalarFields == DOMAIN DefaultScalars

NestedFields == DOMAIN DefaultNested

AllFields == ScalarFields \cup NestedFields

\* a whole stats record from its scalar fields and its nested objects
Whole(sc, ne) ==
    [f \in AllFields |-> IF f \in ScalarFields THEN sc[f] ELSE ne[f]]

NothingStored == [stored |-> FALSE]

\* statsRef.current as the code reads it: its nested objects are those of
\* defaultStats when loadStats copied them by reference
Cur == IF shared THEN Whole(stats, defaultStats) ELSE stats

\* loadStats(): {...defaultStats, ...JSON.parse(s)} when something is stored,
\* {...defaultStats} otherwise; the spread copies the nested objects by
\* reference, so the result shares them with defaultStats
loadStats(store, defs) ==
    IF store.stored
    THEN [rec |-> store.rec, shared |-> FALSE]
    ELSE [rec |-> Whole(DefaultScalars, defs), shared |-> TRUE]

\* the state after mutating statsRef.current into the record s and calling
\* saveStats(s): what was written to shared nested objects lands in defaultStats
saved(s, sh, defs) ==
    [stats        |-> IF sh THEN Whole(s, DefaultNested) ELSE s,
     shared       |-> sh,
     defaultStats |-> IF sh THEN [f \in NestedFields |-> s[f]] ELSE defs,
     storage      |-> [stored |-> TRUE, rec |-> s]]

Commit(c) ==
    \E v \in {c} :
        /\ stats' = v.stats
        /\ shared' = v.shared
        /\ defaultStats' = v.defaultStats
        /\ storage' = v.storage

Includes(arr, x) == \E i \in 1..Len(arr) : arr[i] = x

\* awardMedal that pushes the identifier without looking for it
awardMedal_AlwaysPush(s, medalId) ==
    [s EXCEPT !.medals = Append(@, medalId),
              !.achievements = @ \cup {medalId}]

awardMedal(s, medalId) ==
    [s EXCEPT !.medals = IF Includes(s.medals, medalId) THEN @ ELSE Append(@, medalId),
              !.achievements = @ \cup {medalId}]

----------------------------------------------------------------------------
(* Exercicios: generateExercise *)

RECURSIVE pow(_, _)
pow(base, exp) == IF exp = 0 THEN 1 ELSE base * pow(base, exp - 1)

\* String(n).split("").reduce((a, b) => a + Number(b), 0)
RECURSIVE sumChars(_)
sumChars(t) ==
    IF t = <<>> THEN 0 ELSE sumChars(SubSeq(t, 1, Len(t) - 1)) + DigitVal(t[Len(t)])

Times == <<" ", "MUL", " ">>

\* the divisibility exercise with the digit sum of n \div 10 in its explanation
divisibilidadeExercise_ShortSum(n, by) ==
    LET correct == n % by = 0
    IN  [type    |-> "divisibilidade",
         prompt  |-> [text |-> "O numero {0} e divisivel por {1}? (S/N)", args |-> <<n, by>>],
         answer  |-> IF correct THEN <<"S">> ELSE <<"N">>,
         explain |-> IF by = 3
                     THEN [text |-> IF correct
                                    THEN "Soma dos algarismos de {0} = {1}; e multiplo de 3."
                                    ELSE "Soma dos algarismos de {0} = {1}; nao e multiplo de 3.",
                           args |-> <<n, sumChars(String(n \div 10))>>]
                     ELSE [text |-> "Regra pratica de divisibilidade por {0}.",
                           args |-> <<by>>]]

divisibilidadeExercise(n, by) ==
    LET correct == n % by = 0
    IN  [type    |-> "divisibilidade",
         prompt  |-> [text |-> "O numero {0} e divisivel por {1}? (S/N)", args |-> <<n, by>>],
         answer  |-> IF correct THEN <<"S">> ELSE <<"N">>,
         explain |-> IF by = 3
                     THEN [text |-> IF correct
                                    THEN "Soma dos algarismos de {0} = {1}; e multiplo de 3."
                                    ELSE "Soma dos algarismos de {0} = {1}; nao e multiplo de 3.",
                           args |-> <<n, sumChars(String(n))>>]
                     ELSE [text |-> "Regra pratica de divisibilidade por {0}.",
                           args |-> <<by>>]]

candidates == {11, 12, 13, 14, 15, 16, 17, 19, 21, 23, 25, 29, 31, 33}

primosExercise(n) ==
    [type    |-> "primos",
     prompt  |-> [text |-> "{0} e primo? (S/N)", args |-> <<n>>],
     answer  |-> IF isPrime(n) THEN <<"s", "i", "m">> ELSE <<"n", "a~", "o">>,
     explain |-> IF isPrime(n)
                 THEN [text |-> "{0} tem apenas dois divisores (1 e ele mesmo).",
                       args |-> <<n>>]
                 ELSE [text |-> "{0} nao e primo; menor divisor: {1}.",
                       args |-> <<n, smallestFactor(n)>>]]

fatoracaoPool == {12, 18, 20, 24, 36, 45, 50, 60}

fatoracaoExercise(n) ==
    LET expectedFactors == primeFactors(n)
    IN  [type     |-> "fatoracao",
         value    |-> n,
         expected |-> expectedFactors,
         prompt   |-> [text |-> "Fatore {0} em primos.", args |-> <<n>>],
         answer   |-> join(expectedFactors, Times),
         explain  |-> [text |-> "Fatoracao: {0...}.", args |-> expectedFactors]]

potenciacaoExercise(base, exp) ==
    [type    |-> "potenciacao",
     prompt  |-> [text |-> "Calcule {0}^{1} ({0} elevado a {1}).", args |-> <<base, exp>>],
     answer  |-> String(pow(base, exp)),
     explain |-> [text |-> "{0} multiplicado por si mesmo {1} vezes = {2}",
                  args |-> <<base, exp, pow(base, exp)>>]]

restoExercise(a, b) ==
    LET q == a \div b
        r == a % b
    IN  [type    |-> "resto",
         prompt  |-> [text |-> "Em {0} / {1}, qual e o resto?", args |-> <<a, b>>],
         answer  |-> String(r),
         explain |-> [text |-> "{0} = {1} x {2} + {3}.", args |-> <<a, b, q, r>>]]

\* every exercise generateExercise() can return
generateExercise ==
    {divisibilidadeExercise(n, by) : n \in 10..199, by \in {2, 3, 5, 10}}
    \cup {primosExercise(n) : n \in candidates}
    \cup {fatoracaoExercise(n) : n \in fatoracaoPool}
    \cup {potenciacaoExercise(base, exp) : base \in {2, 3, 4, 5}, exp \in {2, 3, 4}}
    \cup {restoExercise(a, b) : a \in 10..99, b \in 3..11}

----------------------------------------------------------------------------
(* ExerciciosPage.submit: the verdict *)

NoFeedback == [shown |-> FALSE]

Ints(factors) == [i \in 1..Len(factors) |-> factors[i].num]

\* factors.filter((k) => !isPrime(k))
RECURSIVE filterNonPrimes(_)
filterNonPrimes(arr) ==
    IF arr = <<>> THEN <<>>
    ELSE IF ~isPrime(arr[1]) THEN <<arr[1]>> \o filterNonPrimes(Tail(arr))
    ELSE filterNonPrimes(Tail(arr))

\* ex.value is there and is truthy
HasValue(e) == "value" \in DOMAIN e /\ e.value # 0

\* the explanations submit writes
FormatHint == "Formato aceito: 2x2x3, 2 2 3, 2,2,3 ou 2x2x3."
IntegersOnly == "Use apenas inteiros >= 2."
NotAllPrime == "Nem todos os fatores sao primos ({0...}). Dica: fatorar compostos (ex.: 6 = 2x3)."
WrongProduct == "O produto dos fatores digitados e {0}, mas deve ser {1}."
Perfeito == "Perfeito! {0} = {1...}."
Revise == "Revise: {0} = {1...}."

\* a verdict that leaves correct = false and expected = ex.answer
incorrect(e, text, args) ==
    [correct |-> FALSE, explain |-> [text |-> text, args |-> args], expected |-> e.answer]

\* the last branch of the factorization rules: the multiset comparison
compareFactors(e, ks) ==
    LET expectedFactors == e.expected
        correct         == multisetEqual(ks, expectedFactors)
    IN  [correct  |-> correct,
         explain  |-> [text |-> IF correct THEN Perfeito ELSE Revise,
                       args |-> <<e.value>> \o expectedFactors],
         expected |-> join(expectedFactors, Times)]

\* the factorization rules with the product compared before the primality test
gradeFatoracao_ProductFirst(e, text) ==
    LET factors == normalizeFactorsInput(text)
        ks      == Ints(factors)
    IN  IF Len(factors) = 0
        THEN incorrect(e, FormatHint, <<>>)
        ELSE IF ~(\A i \in 1..Len(factors) : isInteger(factors[i]) /\ factors[i].num >= 2)
        THEN incorrect(e, IntegersOnly, <<>>)
        ELSE IF productOf(ks) # e.value
        THEN incorrect(e, WrongProduct, <<productOf(ks), e.value>>)
        ELSE IF \E i \in 1..Len(ks) : ~isPrime(ks[i])
        THEN incorrect(e, NotAllPrime, filterNonPrimes(ks))
        ELSE compareFactors(e, ks)

\* the factorization rules without the "integers >= 2" rule
gradeFatoracao_NoIntegerRule(e, text) ==
    LET factors == normalizeFactorsInput(text)
        ks      == Ints(factors)
    IN  IF Len(factors) = 0
        THEN incorrect(e, FormatHint, <<>>)
        ELSE IF \E i \in 1..Len(ks) : ~isPrime(ks[i])
        THEN incorrect(e, NotAllPrime, filterNonPrimes(ks))
        ELSE IF productOf(ks) # e.value
        THEN incorrect(e, WrongProduct, <<productOf(ks), e.value>>)
        ELSE compareFactors(e, ks)

\* the branch of submit for a factorization exercise
gradeFatoracao(e, text) ==
    LET factors == normalizeFactorsInput(text)
        ks      == Ints(factors)
    IN  IF Len(factors) = 0
        THEN incorrect(e, FormatHint, <<>>)
        ELSE IF ~(\A i \in 1..Len(factors) : isInteger(factors[i]) /\ factors[i].num >= 2)
        THEN incorrect(e, IntegersOnly, <<>>)
        ELSE IF \E i \in 1..Len(ks) : ~isPrime(ks[i])
        THEN incorrect(e, NotAllPrime, filterNonPrimes(ks))
        ELSE IF productOf(ks) # e.value
        THEN incorrect(e, WrongProduct, <<productOf(ks), e.value>>)
        ELSE compareFactors(e, ks)

\* the comparison of the other exercises without trim()
gradeText_NoTrim(e, text) ==
    [correct  |-> toLowerCase(text) = toLowerCase(e.answer),
     explain  |-> e.explain,
     expected |-> e.answer]

\* the branch of submit for the other exercises
gradeText(e, text) ==
    [correct  |-> toLowerCase(trim(text)) = toLowerCase(e.answer),
     explain  |-> e.explain,
     expected |-> e.answer]

\* what submit passes to setFeedback
grade(e, text) ==
    IF e.type = "fatoracao" /\ HasValue(e)
    THEN gradeFatoracao(e, text)
    ELSE gradeText(e, text)

----------------------------------------------------------------------------
(* ExerciciosPage: the handlers *)

callVars == <<arg, ret, route, huntVars, animVars>>

\* useState<string | null>(null) of PrimeHunt
NoMsg == [text |-> "null", args |-> <<>>]

\* PrimeHunt is not on screen
HuntOff == clicked = <<>> /\ msg = NoMsg

\* FatoracaoPage is not on screen
AnimOff == fatN = 0 /\ steps = <<>> /\ shown = 0 /\ playing = FALSE /\ timer = FALSE

\* no helper was called
NoCall == [fn |-> "none"]

\* the session effect, useEffect(..., [round]), for the value r of round
sessionEffect(s, r) ==
    IF r = 1 THEN [s EXCEPT !.sessions = @ + 1] ELSE s

\* the first render: statsRef = useRef(loadStats()), then the session effect
\* and its saveStats
mounted(store, defs) ==
    LET l == loadStats(store, defs)
    IN  saved(sessionEffect(l.rec, 1), l.shared, defs)

\* onChange of the answer box
onChange(text) ==
    /\ round >= 1
    /\ input' = text
    /\ UNCHANGED <<round, ex, feedback, score, stats, shared, defaultStats, storage,
                   callVars>>

\* submit with a verdict that is always "correct"
submitStats_AlwaysCorrect(s, type, correct) ==
    [s EXCEPT !.totalQuestions = @ + 1,
              !.perTopic[type].correct = @ + 1,
              !.correctQuestions = @ + 1,
              !.xp = @ + 5]

\* lines 943-950 of submit: the counters
submitStats(s, type, correct) ==
    LET s1 == [s EXCEPT !.totalQuestions = @ + 1,
                        !.perTopic[type][IF correct THEN "correct" ELSE "wrong"] = @ + 1]
    IN  IF correct
        THEN [s1 EXCEPT !.correctQuestions = @ + 1, !.xp = @ + 5]
        ELSE s1

submit ==
    /\ round >= 1
    /\ \E g \in {grade(ex, input)} :
           /\ feedback' = [shown |-> TRUE, correct |-> g.correct,
                           explain |-> g.explain, expected |-> g.expected]
           /\ score' = IF g.correct THEN score + 1 ELSE score
           /\ Commit(saved(submitStats(Cur, ex.type, g.correct), shared, defaultStats))
    /\ UNCHANGED <<round, ex, input, callVars>>

Max(a, b) == IF a >= b THEN a ELSE b

\* the end of a series that pays 2 XP per point
closeSeries_TwoPerPoint(s, sc) ==
    LET s1 == [s EXCEPT !.bestFiveScore = IF @ >= sc THEN @ ELSE sc]
        s2 == IF sc = 5 THEN awardMedal(s1, "medal_perfeicao_5_de_5") ELSE s1
        s3 == IF sc >= 4 THEN awardMedal(s2, "medal_quase_lagrimas") ELSE s2
    IN  [s3 EXCEPT !.xp = @ + sc * 2]

\* lines 957-961 of next: the end of a series of five
closeSeries(s, sc) ==
    LET s1 == [s EXCEPT !.bestFiveScore = Max(@, sc)]
        s2 == IF sc = 5 THEN awardMedal(s1, "medal_perfeicao_5_de_5") ELSE s1
        s3 == IF sc >= 4 THEN awardMedal(s2, "medal_quase_lagrimas") ELSE s2
    IN  [s3 EXCEPT !.xp = @ + sc * 3]

\* next, with e the exercise generateExercise() returns, and the session
\* effect that the change of round triggers
next(e) ==
    /\ round >= 1
    /\ IF round >= 5
       THEN /\ score' = 0
            /\ round' = 1
            /\ Commit(saved(sessionEffect(closeSeries(Cur, score), 1), shared,
                            defaultStats))
       ELSE /\ round' = round + 1
            /\ UNCHANGED <<score, stats, shared, defaultStats, storage>>
    /\ ex' = e
    /\ input' = <<>>
    /\ feedback' = NoFeedback
    /\ UNCHANGED callVars

\* the first render of the page with the exercise e, and its session effect
mountQuiz(e) ==
    /\ round' = 1
    /\ ex' = e
    /\ input' = <<>>
    /\ feedback' = NoFeedback
    /\ score' = 0
    /\ Commit(mounted(storage, defaultStats))

\* the page comes on screen (again, after a visit to another page) with the
\* exercise e
Mount(e) ==
    /\ mountQuiz(e)
    /\ UNCHANGED callVars

\* the page on its first visit, with nothing stored, showing the exercise e
FirstVisit(e) ==
    LET c == mounted(NothingStored, DefaultNested)
    IN  /\ round = 1
        /\ ex = e
        /\ input = <<>>
        /\ feedback = NoFeedback
        /\ score = 0
        /\ stats = c.stats
        /\ shared = c.shared
        /\ defaultStats = c.defaultStats
        /\ storage = c.storage
        /\ arg = 0
        /\ ret = NoCall
        /\ route = "/exercicios"
        /\ HuntOff
        /\ AnimOff

\* no page with a state is on screen and nothing was ever saved
Idle ==
    /\ round = 0
    /\ ex = [type |-> "none"]
    /\ input = <<>>
    /\ feedback = NoFeedback
    /\ score = 0
    /\ stats = Whole(DefaultScalars, DefaultNested)
    /\ shared = FALSE
    /\ defaultStats = DefaultNested
    /\ storage = NothingStored
    /\ route = "/"
    /\ HuntOff
    /\ AnimOff

----------------------------------------------------------------------------
(* PrimeHunt: the prime game over 0..100 *)

QuizOff ==
    /\ round = 0
    /\ ex = [type |-> "none"]
    /\ input = <<>>
    /\ feedback = NoFeedback
    /\ score = 0

\* the state after useRef(loadStats()) alone: nothing is saved
loaded(store, defs) ==
    LET l == loadStats(store, defs)
    IN  [stats        |-> IF l.shared THEN Whole(l.rec, DefaultNested) ELSE l.rec,
         shared       |-> l.shared,
         defaultStats |-> defs,
         storage      |-> store]

\* Array.from({ length: 101 }, (_, i) => i)
Cells == 0..100

primes == {c \in Cells : isPrime(c)}

totalPrimes == Cardinality(primes)

correctCount(cl) == Cardinality({c \in DOMAIN cl : cl[c] = "correct"})

explain(c) ==
    IF c < 2
    THEN [text |-> "{0} nao e primo (por definicao, primos comecam em 2).", args |-> <<c>>]
    ELSE IF c % 2 = 0 /\ c # 2
    THEN [text |-> "{0} nao e primo: e par (divisivel por 2).", args |-> <<c>>]
    ELSE LET f == smallestFactor(c)
         IN  IF f # Null
             THEN [text |-> "{0} nao e primo: divisivel por {1}.", args |-> <<c, f>>]
             ELSE [text |-> "{0} e primo!", args |-> <<c>>]

Parabens ==
    [text |-> "Parabens! Voce encontrou todos os primos ate 100. Medalha conquistada!",
     args |-> <<>>]

\* the completion effect that pays its bonus whatever the count
completionEffect_Always(s, count) ==
    [awardMedal([s EXCEPT !.primeHuntCompleted = TRUE], "medal_caca_primos_0_100")
        EXCEPT !.xp = @ + 50]

\* useEffect(..., [correctCount, totalPrimes]) for the value count of
\* correctCount
completionEffect(s, count) ==
    IF count = totalPrimes /\ totalPrimes > 0
    THEN [awardMedal([s EXCEPT !.primeHuntCompleted = TRUE], "medal_caca_primos_0_100")
             EXCEPT !.xp = @ + 50]
    ELSE s

\* onClickNumber(c) and the completion effect that a new correctCount
\* triggers
onClickNumber(c) ==
    /\ route = "/primos"
    /\ IF c \in DOMAIN clicked
       THEN UNCHANGED <<clicked, msg, stats, shared, defaultStats, storage>>
       ELSE LET correct == isPrime(c)
                nextClicked == [d \in DOMAIN clicked \cup {c} |->
                                   IF d = c
                                   THEN (IF correct THEN "correct" ELSE "wrong")
                                   ELSE clicked[d]]
                count == correctCount(nextClicked)
            IN  /\ clicked' = nextClicked
                /\ IF correct
                   THEN /\ msg' = IF count = totalPrimes /\ totalPrimes > 0
                                  THEN Parabens
                                  ELSE [text |-> "{0} e primo!", args |-> <<c>>]
                        /\ Commit(saved(completionEffect([Cur EXCEPT !.xp = @ + 2], count),
                                        shared, defaultStats))
                   ELSE /\ msg' = explain(c)
                        /\ UNCHANGED <<stats, shared, defaultStats, storage>>
    /\ UNCHANGED <<round, ex, input, feedback, score, arg, ret, route, animVars>>

\* the game comes on screen
MountHunt ==
    /\ route' = "/primos"
    /\ clicked' = <<>>
    /\ msg' = NoMsg
    /\ Commit(loaded(storage, defaultStats))

\* the game on its first visit, with nothing stored
HuntFirstVisit ==
    LET c == loaded(NothingStored, DefaultNested)
    IN  /\ QuizOff
        /\ AnimOff
        /\ route = "/primos"
        /\ clicked = <<>>
        /\ msg = NoMsg
        /\ stats = c.stats
        /\ shared = c.shared
        /\ defaultStats = c.defaultStats
        /\ storage = c.storage
        /\ arg = 0
        /\ ret = NoCall

\* the cells clicked besides the primes: 0, 1, two even numbers, 7 * 13
HuntOthers == {0, 1, 4, 91, 100}

\* the lowest or the highest prime that was not clicked yet
ClickPrime ==
    LET left == primes \ DOMAIN clicked
    IN  \E c \in {p \in left : (\A q \in left : p <= q) \/ (\A q \in left : p >= q)} :
            onClickNumber(c)

ClickOther == \E c \in HuntOthers \ DOMAIN clicked : onClickNumber(c)

\* a second click on an answered cell: 2, 97 or one of the others
ClickAgain == \E c \in DOMAIN clicked \cap (HuntOthers \cup {2, 97}) : onClickNumber(c)

HuntStep == ClickPrime \/ ClickOther \/ ClickAgain

HuntSpec == HuntFirstVisit /\ [][HuntStep]_vars

----------------------------------------------------------------------------
(* FatoracaoPage: the animated factorization *)

\* buildSteps that stops after its first division
buildSteps_OneStep(x) ==
    IF x >= 2
    THEN LET f == smallestFactor(x)
         IN  IF f = Null
             THEN <<[value |-> x, factor |-> x, remaining |-> 1]>>
             ELSE <<[value |-> x, factor |-> f, remaining |-> x \div f]>>
    ELSE <<>>

\* the while loop of buildSteps, from the value v with the steps arr
RECURSIVE buildStepsLoop(_, _)
buildStepsLoop(v, arr) ==
    IF v >= 2
    THEN LET f == smallestFactor(v)
         IN  IF f = Null
             THEN Append(arr, [value |-> v, factor |-> v, remaining |-> 1])
             ELSE LET pushed == Append(arr, [value |-> v, factor |-> f,
                                             remaining |-> v \div f])
                  IN  IF v \div f = 1 THEN pushed ELSE buildStepsLoop(v \div f, pushed)
    ELSE arr

buildSteps(x) == buildStepsLoop(x, <<>>)

Min(a, b) == IF a <= b THEN a ELSE b

\* useEffect(..., [shown, steps.length]) for the values sh and len
xpEffect(s, sh, len) ==
    IF sh >= len /\ len > 0 THEN [s EXCEPT !.xp = @ + 10] ELSE s

\* the record after the effects ran: saveStats is called by the effect that
\* pays, so a record that was not paid leaves everything as it was
CommitIfPaid(s) ==
    IF s.xp # Cur.xp
    THEN Commit(saved(s, shared, defaultStats))
    ELSE UNCHANGED <<stats, shared, defaultStats, storage>>

\* setShown with the value v, and the XP effect that a new value triggers
setShown(v) ==
    /\ shown' = v
    /\ IF v # shown
       THEN CommitIfPaid(xpEffect(Cur, v, Len(steps)))
       ELSE UNCHANGED <<stats, shared, defaultStats, storage>>

\* onChange of the number input with the typed value v: setN, then the
\* effect on [n] (its cleanup stops the interval, it installs the steps),
\* the XP effect of the render with the new steps and the old shown, the
\* effect on [steps] (shown back to 0) and the XP effect of that render
changeN(v) ==
    /\ route = "/fatoracao"
    /\ LET m == Max(2, v)
           built == buildSteps(m)
           s1 == IF Len(built) # Len(steps) THEN xpEffect(Cur, shown, Len(built)) ELSE Cur
           s2 == IF shown # 0 THEN xpEffect(s1, 0, Len(built)) ELSE s1
       IN  IF m = fatN
           THEN UNCHANGED <<fatN, steps, shown, timer, stats, shared, defaultStats,
                            storage>>
           ELSE /\ fatN' = m
                /\ steps' = built
                /\ shown' = 0
                /\ timer' = FALSE
                /\ CommitIfPaid(s2)
    /\ UNCHANGED <<round, ex, input, feedback, score, arg, ret, route, huntVars,
                   playing>>

\* the button "Proximo passo"
nextStep ==
    /\ route = "/fatoracao"
    /\ setShown(Min(Len(steps), shown + 1))
    /\ UNCHANGED <<round, ex, input, feedback, score, arg, ret, route, huntVars,
                   fatN, steps, playing, timer>>

startAuto ==
    /\ route = "/fatoracao"
    /\ playing' = TRUE
    /\ timer' = TRUE
    /\ UNCHANGED <<pageVars, arg, ret, route, huntVars, fatN, steps, shown>>

stopAuto ==
    /\ route = "/fatoracao"
    /\ playing' = FALSE
    /\ timer' = FALSE
    /\ UNCHANGED <<pageVars, arg, ret, route, huntVars, fatN, steps, shown>>

\* one tick of the interval that startAuto set
tick ==
    /\ route = "/fatoracao"
    /\ timer
    /\ IF shown >= Len(steps)
       THEN /\ timer' = FALSE
            /\ playing' = FALSE
            /\ UNCHANGED <<shown, stats, shared, defaultStats, storage>>
       ELSE /\ setShown(shown + 1)
            /\ UNCHANGED <<timer, playing>>
    /\ UNCHANGED <<round, ex, input, feedback, score, arg, ret, route, huntVars,
                   fatN, steps>>

\* the page on its first visit, with nothing stored, after its first effects
AnimFirstVisit ==
    LET c == loaded(NothingStored, DefaultNested)
    IN  /\ QuizOff
        /\ HuntOff
        /\ route = "/fatoracao"
        /\ fatN = 84
        /\ steps = buildSteps(84)
        /\ shown = 0
        /\ playing = FALSE
        /\ timer = FALSE
        /\ stats = c.stats
        /\ shared = c.shared
        /\ defaultStats = c.defaultStats
        /\ storage = c.storage
        /\ arg = 0
        /\ ret = NoCall

MaxTyped == 12
MaxAwards == 3

\* the numbers typed into the input
Typed == 0..MaxTyped \cup {84, 85, 90}

\* fewer than MaxAwards awards were paid
Paying == Cur.xp < 10 * MaxAwards

ChangeNumber == Paying /\ \E v \in Typed : changeN(v)

PressNextStep == Paying /\ nextStep

Tick == Paying /\ tick

AnimStep == ChangeNumber \/ PressNextStep \/ startAuto \/ stopAuto \/ Tick

AnimSpec == AnimFirstVisit /\ [][AnimStep]_vars

----------------------------------------------------------------------------
(* The quiz page: a series of five *)

MaxQuestions == 4
MaxSessions == 2

\* the exercises and the typed texts of the series
QuizPool == {fatoracaoExercise(12), potenciacaoExercise(2, 3)}

QuizTexts == {<<"2", "x", "2", "x", "3">>, <<"8">>}

Init == \E e \in QuizPool : FirstVisit(e)

Type == \E t \in QuizTexts : onChange(t)

Answer == Cur.totalQuestions < MaxQuestions /\ submit

Advance == \E e \in QuizPool : (round < 5 \/ Cur.sessions < MaxSessions) /\ next(e)

Revisit == \E e \in QuizPool : Cur.sessions < MaxSessions /\ Mount(e)

Step == Type \/ Answer \/ Advance \/ Revisit

Spec == Init /\ [][Step]_vars

----------------------------------------------------------------------------
(* The quiz page and the prime game, one after the other *)

MaxSeries == 3

\* the exercise of every round, and the text that answers it
MedalExercise == potenciacaoExercise(2, 3)

\* the application opens on "/", where no page keeps a record
AppInit ==
    /\ Idle
    /\ arg = 0
    /\ ret = NoCall

\* what localStorage holds, or the defaults
Stored == IF storage.stored THEN storage.rec ELSE Whole(DefaultScalars, DefaultNested)

\* the link to "/exercicios"
OpenQuiz ==
    /\ route # "/exercicios"
    /\ Stored.sessions < MaxSeries
    /\ mountQuiz(MedalExercise)
    /\ route' = "/exercicios"
    /\ clicked' = <<>>
    /\ msg' = NoMsg
    /\ UNCHANGED <<arg, ret, animVars>>

\* the link to "/primos", taken from a quiz between two series and while
\* the game was not completed
OpenHunt ==
    /\ route # "/primos"
    /\ route = "/exercicios" => (round = 1 /\ ~feedback.shown)
    /\ ~Stored.primeHuntCompleted
    /\ MountHunt
    /\ round' = 0
    /\ ex' = [type |-> "none"]
    /\ input' = <<>>
    /\ feedback' = NoFeedback
    /\ score' = 0
    /\ UNCHANGED <<arg, ret, animVars>>

\* the right answer typed into the empty box
TypeRight ==
    /\ route = "/exercicios"
    /\ input = <<>>
    /\ ~feedback.shown
    /\ onChange(<<"8">>)

\* Responder, once per exercise, on the typed answer or on the empty box
AnswerRound ==
    /\ route = "/exercicios"
    /\ ~feedback.shown
    /\ submit

\* Proximo, after the answer
NextRound ==
    /\ route = "/exercicios"
    /\ feedback.shown
    /\ round < 5 \/ Cur.sessions < MaxSeries
    /\ next(MedalExercise)

\* the next prime, in ascending order, until the game is complete
FindPrime ==
    /\ route = "/primos"
    /\ \E c \in {p \in primes \ DOMAIN clicked : \A q \in primes \ DOMAIN clicked : p <= q} :
           onClickNumber(c)

AppStep == OpenQuiz \/ OpenHunt \/ TypeRight \/ AnswerRound \/ NextRound \/ FindPrime

AppSpec == AppInit /\ [][AppStep]_vars

----------------------------------------------------------------------------
(* The quiz page: one exercise, one typed text, one submit *)

MaxTokens == 4
MaxListed == 2
MaxPad == 1
DrawSpan == 5

SeqsUpTo(S, n) == UNION {[1..k -> S] : k \in 0..n}

\* the pieces of ts with sep between them
RECURSIVE interleave(_, _)
interleave(ts, sep) ==
    IF ts = <<>> THEN <<>>
    ELSE IF Len(ts) = 1 THEN ts[1]
    ELSE ts[1] \o sep \o interleave(Tail(ts), sep)

\* the typed tokens: primes, a composite, 1, a fraction, a word
FactorTokens ==
    {<<"2">>, <<"3">>, <<"5">>, <<"6">>, <<"1">>, <<"1", ".", "5">>, <<"a", "b">>}

\* String.prototype.toUpperCase, one character
UpperChar(c) ==
    CASE c = "s" -> "S"
      [] c = "n" -> "N"
      [] c = "i" -> "I"
      [] c = "m" -> "M"
      [] c = "o" -> "O"
      [] c = "a~" -> "A~"
      [] OTHER -> c

\* the exercises of the other topics, the two wide draws cut to DrawSpan values
TextExercises ==
    {divisibilidadeExercise(n, by) : n \in 10..(10 + DrawSpan), by \in {2, 3, 5, 10}}
    \cup {primosExercise(n) : n \in candidates}
    \cup {potenciacaoExercise(base, exp) : base \in {2, 3, 4, 5}, exp \in {2, 3, 4}}
    \cup {restoExercise(a, b) : a \in 10..(10 + DrawSpan), b \in 3..11}

\* the typed answers: every canonical answer, as it is, in lower case, in
\* upper case, capitalised, and with a leading zero
AnswerCores ==
    LET answers == {e.answer : e \in TextExercises}
    IN  answers
        \cup {toLowerCase(a) : a \in answers}
        \cup {[i \in 1..Len(a) |-> UpperChar(a[i])] : a \in answers}
        \cup {[i \in 1..Len(a) |-> IF i = 1 THEN UpperChar(a[i]) ELSE a[i]] : a \in answers}
        \cup {<<"0">> \o a : a \in answers}

\* the blanks around a typed answer: up to MaxPad spaces, or a tab
Pads == {[i \in 1..k |-> " "] : k \in 0..MaxPad} \cup {<<"TAB">>}

FactorInit == \E n \in fatoracaoPool : FirstVisit(fatoracaoExercise(n))

\* a factorization typed as a product, the tokens with "x" between them
TypeProduct ==
    /\ input = <<>> /\ ~feedback.shown
    /\ \E ts \in SeqsUpTo(FactorTokens, MaxTokens) : onChange(interleave(ts, <<"x">>))

\* a factorization typed as a list, the tokens with "," between them
TypeList ==
    /\ input = <<>> /\ ~feedback.shown
    /\ \E ts \in SeqsUpTo(FactorTokens, MaxListed) : onChange(interleave(ts, <<",">>))

AnswerOnce == ~feedback.shown /\ submit

FactorStep == TypeProduct \/ TypeList \/ AnswerOnce

FactorSpec == FactorInit /\ [][FactorStep]_vars

AnswerInit == \E e \in TextExercises : FirstVisit(e)

\* an answer typed with blanks around it
TypeAnswer ==
    /\ input = <<>> /\ ~feedback.shown
    /\ \E l \in Pads, c \in AnswerCores, r \in Pads : onChange(l \o c \o r)

AnswerStep == TypeAnswer \/ AnswerOnce

AnswerSpec == AnswerInit /\ [][AnswerStep]_vars

----------------------------------------------------------------------------
(* Direct calls of isPrime, smallestFactor, primeFactors and buildSteps *)

MaxN == 1000
NegSpan == 20

KernelInit ==
    /\ Idle
    /\ arg \in (0 - NegSpan)..MaxN
    /\ ret = NoCall

CallIsPrime ==
    /\ ret = NoCall
    /\ ret' = [fn |-> "isPrime", out |-> isPrime(arg)]
    /\ UNCHANGED <<arg, pageVars, route, huntVars, animVars>>

CallSmallestFactor ==
    /\ ret = NoCall
    /\ ret' = [fn |-> "smallestFactor", out |-> smallestFactor(arg)]
    /\ UNCHANGED <<arg, pageVars, route, huntVars, animVars>>

CallPrimeFactors ==
    /\ ret = NoCall
    /\ ret' = [fn |-> "primeFactors", out |-> primeFactors(arg)]
    /\ UNCHANGED <<arg, pageVars, route, huntVars, animVars>>

CallBuildSteps ==
    /\ ret = NoCall
    /\ ret' = [fn |-> "buildSteps", out |-> buildSteps(arg)]
    /\ UNCHANGED <<arg, pageVars, route, huntVars, animVars>>

KernelNext == CallIsPrime \/ CallSmallestFactor \/ CallPrimeFactors \/ CallBuildSteps

KernelSpec == KernelInit /\ [][KernelNext]_vars

----------------------------------------------------------------------------
(* Direct calls of normalizeFactorsInput *)

MaxItems == 3
MaxBlank == 2

\* what a text is joined from: integers >= 2 written in decimal, and words
IntItem(v) == [kind |-> "int", v |-> v, text |-> String(v)]
WordItem(t) == [kind |-> "word", v |-> 0, text |-> t]

ParseItems == {IntItem(2), IntItem(10), IntItem(97), WordItem(<<"a", "b">>)}

\* the accepted separators, alone, repeated and mixed
ParseSeps ==
    {<<"x">>, <<"X">>, <<"MUL">>, <<"*">>, <<"MIDDOT">>, <<",">>, <<";">>, <<" ">>,
     <<"TAB", " ">>, <<" ", "x", " ">>, <<",", " ", ";">>}

\* items[1] seps[1] items[2] ... seps[n-1] items[n]
RECURSIVE joinItems(_, _)
joinItems(items, seps) ==
    IF items = <<>> THEN <<>>
    ELSE IF Len(items) = 1 THEN items[1].text
    ELSE items[1].text \o seps[1] \o joinItems(Tail(items), Tail(seps))

ParseInit ==
    /\ Idle
    /\ \/ \E items \in SeqsUpTo(ParseItems, MaxItems) \ {<<>>} :
             \E seps \in [1..(Len(items) - 1) -> ParseSeps] :
                 arg = [items |-> items, text |-> joinItems(items, seps)]
       \/ \E b \in SeqsUpTo({" ", "TAB", "NL"}, MaxBlank) :
             arg = [items |-> <<>>, text |-> b]
    /\ ret = NoCall

CallNormalize ==
    /\ ret = NoCall
    /\ ret' = [fn |-> "normalizeFactorsInput", out |-> normalizeFactorsInput(arg.text)]
    /\ UNCHANGED <<arg, pageVars, route, huntVars, animVars>>

ParseSpec == ParseInit /\ [][CallNormalize]_vars

----------------------------------------------------------------------------
(* Direct calls of multisetEqual *)

MaxLen == 3

\* the integers the two arrays are filled with
ArrayElems == {2, 3, 5, 10}

MultisetInit ==
    /\ Idle
    /\ \E a \in SeqsUpTo(ArrayElems, MaxLen), b \in SeqsUpTo(ArrayElems, MaxLen) :
           arg = [a |-> a, b |-> b]
    /\ ret = NoCall

\* the call sorts the copies [...a] and [...b]; the arrays passed stay as
\* they were
CallMultisetEqual ==
    /\ ret = NoCall
    /\ ret' = [fn |-> "multisetEqual", out |-> multisetEqual(arg.a, arg.b)]
    /\ arg' = [a |-> arg.a, b |-> arg.b]
    /\ UNCHANGED <<pageVars, route, huntVars, animVars>>

MultisetSpec == MultisetInit /\ [][CallMultisetEqual]_vars

----------------------------------------------------------------------------
(* generateExercise: the divisibility draws *)

\* the two draws of the case "divisibilidade": n = 10 + floor(random * 190)
\* and by, one of [2, 3, 5, 10]
DrawInit ==
    /\ Idle
    /\ \E n \in 10..199, by \in {2, 3, 5, 10} : arg = [n |-> n, by |-> by]
    /\ ret = NoCall

CallGenerate ==
    /\ ret = NoCall
    /\ ret' = [fn |-> "generateExercise", out |-> divisibilidadeExercise(arg.n, arg.by)]
    /\ UNCHANGED <<arg, pageVars, route, huntVars, animVars>>

DrawSpec == DrawInit /\ [][CallGenerate]_vars

----------------------------------------------------------------------------
(* The helpers' contracts *)

\* C7: for n >= 2, primeFactors(n) is non-decreasing, its product is n and
\* each of its elements satisfies isPrime; for n < 2 it is empty.
C7_PrimeFactors ==
    ret.fn = "primeFactors" =>
        IF arg >= 2
        THEN /\ \A i \in 1..(Len(ret.out) - 1) : ret.out[i] <= ret.out[i + 1]
             /\ productOf(ret.out) = arg
             /\ \A i \in 1..Len(ret.out) : isPrime(ret.out[i])
        ELSE ret.out = <<>>

C7_Witness == ret.fn = "primeFactors" /\ arg = 12 /\ ret.out = <<2, 2, 3>>

\* the reference: n has exactly two positive divisors
SievePrime(n) == n >= 0 /\ Cardinality({d \in 1..n : n % d = 0}) = 2

\* C8: isPrime(n) agrees with the reference for every n of the range, and
\* is false for 0, 1 and the negative integers, true for 2 and 3, false for
\* every even n > 2.
C8_IsPrime ==
    ret.fn = "isPrime" =>
        /\ ret.out = SievePrime(arg)
        /\ arg < 2 => ret.out = FALSE
        /\ arg \in {2, 3} => ret.out = TRUE
        /\ (arg > 2 /\ arg % 2 = 0) => ret.out = FALSE

C8_Witness == ret.fn = "isPrime" /\ arg = 997 /\ ret.out = TRUE

\* C9: for a composite n >= 2, smallestFactor(n) is the least divisor of n
\* above 1, divides n and has a square of at most n; for a prime n and for
\* n < 2 it is null; for n >= 2, isPrime(n) holds exactly when it is null.
C9_SmallestFactor ==
    ret.fn = "smallestFactor" =>
        /\ (arg >= 2 /\ ~isPrime(arg)) =>
               /\ ret.out > 1
               /\ arg % ret.out = 0
               /\ ret.out * ret.out <= arg
               /\ \A d \in 2..(ret.out - 1) : arg % d # 0
        /\ (arg < 2 \/ isPrime(arg)) => ret.out = Null
        /\ arg >= 2 => (isPrime(arg) <=> ret.out = Null)

----------------------------------------------------------------------------
(* The verdicts of submit *)

\* a factorization exercise was graded on the text in the answer box
GradedFactors == round >= 1 /\ feedback.shown /\ ex.type = "fatoracao"

\* an exercise of another topic was graded on the text in the answer box
GradedText == round >= 1 /\ feedback.shown /\ ex.type # "fatoracao"

AtLeast2(v) == isInteger(v) /\ v.num >= 2

\* the elements of ks that are not prime, in their order
RECURSIVE NonPrimesOf(_)
NonPrimesOf(ks) ==
    IF ks = <<>> THEN <<>>
    ELSE (IF SievePrime(ks[1]) THEN <<>> ELSE <<ks[1]>>) \o NonPrimesOf(Tail(ks))

RECURSIVE Product(_)
Product(ks) == IF ks = <<>> THEN 1 ELSE ks[1] * Product(Tail(ks))

Says(text, args) == feedback.explain = [text |-> text, args |-> args]

\* C1: the rules of a factorization answer apply in order and stop at the
\* first that fails: empty list -> format hint; a value that is no integer
\* >= 2 -> "integers >= 2 only"; a value that is not prime -> the list of
\* exactly the non-prime values; product differs from the subject -> the
\* product and the subject; each with the verdict "not correct".  For 12:
\* "" -> format hint, "2,6" -> non-prime 6, "2x3x3" -> 18 against 12,
\* "2x2x3" -> correct.
C1_RuleOrder ==
    GradedFactors =>
        \A p \in {normalizeFactorsInput(input)} : \A ks \in {Ints(p)} :
            /\ IF p = <<>>
               THEN ~feedback.correct /\ Says(FormatHint, <<>>)
               ELSE IF \E i \in 1..Len(p) : ~AtLeast2(p[i])
               THEN ~feedback.correct /\ Says(IntegersOnly, <<>>)
               ELSE IF \E i \in 1..Len(ks) : ~SievePrime(ks[i])
               THEN ~feedback.correct /\ Says(NotAllPrime, NonPrimesOf(ks))
               ELSE IF Product(ks) # ex.value
               THEN ~feedback.correct /\ Says(WrongProduct, <<Product(ks), ex.value>>)
               ELSE TRUE
            /\ ex.value = 12 =>
                  /\ input = <<>> => ~feedback.correct /\ Says(FormatHint, <<>>)
                  /\ input = <<"2", ",", "6">> =>
                        ~feedback.correct /\ Says(NotAllPrime, <<6>>)
                  /\ input = <<"2", "x", "3", "x", "3">> =>
                        ~feedback.correct /\ Says(WrongProduct, <<18, 12>>)
                  /\ input = <<"2", "x", "2", "x", "3">> => feedback.correct

\* an answer that fails the second and the third rule gets the second's message
C1_Witness ==
    /\ GradedFactors
    /\ ex.value = 12
    /\ input = <<"6", "x", "1">>
    /\ Says(IntegersOnly, <<>>)

\* how often x occurs in ks
Count(ks, x) == Cardinality({i \in 1..Len(ks) : ks[i] = x})

\* C2: for every subject of the pool and every parsed list of primes whose
\* product is the subject, multisetEqual(parsed, expected) is true: the
\* verdict is correct and the "Revise" branch is not taken.
C2_UniqueFactorization ==
    GradedFactors =>
        \A p \in {normalizeFactorsInput(input)} : \A ks \in {Ints(p)} :
            (/\ ex.value \in fatoracaoPool
             /\ p # <<>>
             /\ \A i \in 1..Len(p) : AtLeast2(p[i]) /\ SievePrime(ks[i])
             /\ Product(ks) = ex.value)
            => /\ multisetEqual(ks, ex.expected)
               /\ \A x \in 2..ex.value : Count(ks, x) = Count(ex.expected, x)
               /\ feedback.correct
               /\ feedback.explain.text = Perfeito

\* the factors of 60 typed in another order than the expected one
C2_Witness ==
    /\ GradedFactors
    /\ ex.value = 60
    /\ input = <<"5", "x", "2", "x", "3", "x", "2">>
    /\ feedback.correct

\* text without its blanks at both ends equals answer, letter case aside
SameButCaseAndBlanks(text, answer) ==
    \E i \in 1..(Len(text) + 1) : \E j \in (i - 1)..Len(text) :
        /\ \A k \in 1..(i - 1) : IsSpace(text[k])
        /\ \A k \in (j + 1)..Len(text) : IsSpace(text[k])
        /\ j - i + 1 = Len(answer)
        /\ \A k \in 1..Len(answer) : LowerChar(text[i + k - 1]) = LowerChar(answer[k])

\* C3: for an exercise of another topic than factorization the verdict is
\* correct exactly when the text, trimmed and in lower case, is the answer in
\* lower case, as strings: for the answer "8", " 8 " is correct and "08" is not.
C3_TextEquality ==
    GradedText =>
        /\ feedback.correct <=> SameButCaseAndBlanks(input, ex.answer)
        /\ ex.answer = <<"8">> =>
              /\ input = <<" ", "8", " ">> => feedback.correct
              /\ input = <<"0", "8">> => ~feedback.correct

C3_Witness ==
    /\ GradedText
    /\ ex.answer = <<"s", "i", "m">>
    /\ input = <<" ", "S", "I", "M", " ">>
    /\ feedback.correct

SeparatorChars == {"x", "X", "MUL", "*", "MIDDOT", ",", ";", " ", "TAB", "NL"}

\* the tokens of a text: its longest runs of characters that are no separators
RECURSIVE RawTokens(_, _)
RawTokens(text, cur) ==
    IF text = <<>> THEN (IF cur = <<>> THEN <<>> ELSE <<cur>>)
    ELSE IF text[1] \in SeparatorChars
         THEN (IF cur = <<>> THEN <<>> ELSE <<cur>>) \o RawTokens(Tail(text), <<>>)
         ELSE RawTokens(Tail(text), Append(cur, text[1]))

\* a token that is an integer >= 2 written in decimal
DecimalAtLeast2(tok) ==
    /\ tok # <<>>
    /\ \A i \in 1..Len(tok) : IsDigit(tok[i])
    /\ digitsValue(tok, 10) >= 2

Diagnosed ==
    /\ ~feedback.correct
    /\ feedback.explain.text \in {FormatHint, IntegersOnly, NotAllPrime, WrongProduct}

\* C4 as stated: every text that is empty or blank, or in which some token is
\* not an integer >= 2 (a word, a fraction, 0, 1, a negative number), ends in
\* correct = false with a diagnostic explanation.
C4_Original ==
    GradedFactors =>
        \A toks \in {RawTokens(input, <<>>)} :
            (toks = <<>> \/ \E i \in 1..Len(toks) : ~DecimalAtLeast2(toks[i]))
            => Diagnosed

\* C4 as amended: a text with no token that reads as a number ends in the
\* format hint, a text with a token that reads as a number which is no
\* integer >= 2 ends in "integers >= 2 only", both with correct = false; a
\* token that does not read as a number is dropped and not diagnosed.
C4_Amended ==
    GradedFactors =>
        \A vals \in {[i \in 1..Len(RawTokens(input, <<>>)) |->
                        Number(RawTokens(input, <<>>)[i])]} :
            /\ feedback.correct \in BOOLEAN
            /\ (\A i \in 1..Len(vals) : ~isFinite(vals[i]))
                  => ~feedback.correct /\ Says(FormatHint, <<>>)
            /\ (\E i \in 1..Len(vals) : isFinite(vals[i]) /\ ~AtLeast2(vals[i]))
                  => ~feedback.correct /\ Says(IntegersOnly, <<>>)

\* a fraction beside two primes
C4_Witness ==
    /\ GradedFactors
    /\ input = <<"2", "x", "1", ".", "5", "x", "3">>
    /\ ~feedback.correct
    /\ Says(IntegersOnly, <<>>)

----------------------------------------------------------------------------
(* The counters of the quiz page *)

\* a step of submit: the feedback is shown and neither the text nor the
\* exercise was replaced (onChange replaces the text; next and a new visit
\* remove the feedback)
SubmitStep == round >= 1 /\ feedback'.shown /\ input' = input /\ vars' # vars

Bump(c) == IF c THEN 1 ELSE 0

RECURSIVE SumOver(_, _)
SumOver(S, f) ==
    IF S = {} THEN 0
    ELSE LET x == CHOOSE y \in S : TRUE IN f[x] + SumOver(S \ {x}, f)

\* C5: every submit raises totalQuestions by 1 and exactly one counter by 1,
\* the correct or the wrong counter of the exercise's topic according to the
\* verdict; it raises correctQuestions by 1 and xp by 5 when the verdict is
\* correct and leaves both otherwise.  So totalQuestions is the sum of all
\* per-topic counters and correctQuestions is at most totalQuestions.
C5_Counters ==
    /\ [][SubmitStep =>
            LET c == feedback'.correct
            IN  /\ Cur'.totalQuestions = Cur.totalQuestions + 1
                /\ \A t \in TypeSet :
                      /\ Cur'.perTopic[t].correct
                            = Cur.perTopic[t].correct + Bump(t = ex.type /\ c)
                      /\ Cur'.perTopic[t].wrong
                            = Cur.perTopic[t].wrong + Bump(t = ex.type /\ ~c)
                /\ Cur'.correctQuestions = Cur.correctQuestions + Bump(c)
                /\ Cur'.xp = Cur.xp + 5 * Bump(c)]_vars
    /\ [][Cur'.totalQuestions # Cur.totalQuestions => SubmitStep]_vars
    /\ [](/\ Cur.totalQuestions
               = SumOver(TypeSet, [t \in TypeSet |->
                                     Cur.perTopic[t].correct + Cur.perTopic[t].wrong])
          /\ Cur.correctQuestions
               = SumOver(TypeSet, [t \in TypeSet |-> Cur.perTopic[t].correct])
          /\ Cur.correctQuestions <= Cur.totalQuestions)

\* one correct and one wrong answer were counted
C5_Witness ==
    /\ Cur.totalQuestions = 2
    /\ Cur.correctQuestions = 1
    /\ Cur.perTopic["fatoracao"].correct = 1
    /\ Cur.perTopic["potenciacao"].wrong = 1

\* C6: an exercise gives at most one point: the running score is at most
\* the round number and bestFiveScore is at most 5.
C6_OnePointPerExercise ==
    /\ score <= round
    /\ Cur.bestFiveScore <= 5

----------------------------------------------------------------------------
(* The contract of normalizeFactorsInput *)

\* the integers among the items, in their order
RECURSIVE IntsAmong(_)
IntsAmong(items) ==
    IF items = <<>> THEN <<>>
    ELSE (IF items[1].kind = "int" THEN <<Finite(items[1].v, 0)>> ELSE <<>>)
         \o IntsAmong(Tail(items))

\* C10: a non-empty sequence of integers >= 2 written in decimal and joined
\* with accepted separators (x, X, the multiplication sign, asterisk, middle
\* dot, comma, semicolon, blanks, mixed and repeated) parses to that sequence
\* in that order; an empty or blank text parses to the empty sequence; the
\* tokens that are no numbers are dropped.
C10_RoundTrip ==
    ret.fn = "normalizeFactorsInput" =>
        /\ (arg.items # <<>> /\ \A i \in 1..Len(arg.items) : arg.items[i].kind = "int")
              => /\ Len(ret.out) = Len(arg.items)
                 /\ \A i \in 1..Len(arg.items) : ret.out[i] = Finite(arg.items[i].v, 0)
        /\ (\A i \in 1..Len(arg.text) : IsSpace(arg.text[i])) => ret.out = <<>>
        /\ ret.out = IntsAmong(arg.items)

C10_Witness ==
    /\ ret.fn = "normalizeFactorsInput"
    /\ arg.text = <<"9", "7", ",", " ", ";", "1", "0", " ", "x", " ", "2">>
    /\ ret.out = <<Finite(97, 0), Finite(10, 0), Finite(2, 0)>>

----------------------------------------------------------------------------
(* The contract of multisetEqual *)

\* the orderings of the array s
Reorderings(s) ==
    {[i \in 1..Len(s) |-> s[p[i]]] : p \in Permutations(1..Len(s))}

\* the integers that occur in a or in b
Occurring(a, b) == {a[i] : i \in 1..Len(a)} \cup {b[i] : i \in 1..Len(b)}

\* C11: multisetEqual(a, b) is true exactly when a and b hold the same
\* integers with the same multiplicities; it is symmetric, does not depend
\* on the order of either argument, is false when the lengths differ, and
\* the call leaves both arrays as they were.
C11_MultisetEqual ==
    /\ [](ret.fn = "multisetEqual" =>
            /\ ret.out = (\A x \in Occurring(arg.a, arg.b) :
                              Count(arg.a, x) = Count(arg.b, x))
            /\ ret.out = multisetEqual(arg.b, arg.a)
            /\ \A pa \in Reorderings(arg.a), pb \in Reorderings(arg.b) :
                   multisetEqual(pa, pb) = ret.out
            /\ Len(arg.a) # Len(arg.b) => ret.out = FALSE)
    /\ [][ret'.fn = "multisetEqual" => arg' = arg]_vars

C11_Witness ==
    /\ ret.fn = "multisetEqual"
    /\ arg = [a |-> <<2, 2, 3>>, b |-> <<3, 2, 2>>]
    /\ ret.out = TRUE

----------------------------------------------------------------------------
(* The divisibility exercises *)

\* the sum of the decimal digits of n, 0 <= n < 1000
DigitSum(n) == (n \div 100) + ((n \div 10) % 10) + (n % 10)

\* C13: for every divisibility exercise (n in 10..199, d in {2, 3, 5, 10})
\* the canonical answer is the affirmative one exactly when n mod d = 0;
\* when d = 3 the explanation states the digit sum of n and says "multiple
\* of 3" exactly when the digit sum is divisible by 3, in agreement with
\* the answer.
C13_Divisibility ==
    ret.fn = "generateExercise" =>
        /\ ret.out.type = "divisibilidade"
        /\ ret.out.answer \in {<<"S">>, <<"N">>}
        /\ ret.out.answer = <<"S">> <=> arg.n % arg.by = 0
        /\ arg.by = 3 =>
              /\ ret.out.explain.args = <<arg.n, DigitSum(arg.n)>>
              /\ ret.out.explain.text \in
                     {"Soma dos algarismos de {0} = {1}; e multiplo de 3.",
                      "Soma dos algarismos de {0} = {1}; nao e multiplo de 3."}
              /\ ret.out.explain.text =
                     "Soma dos algarismos de {0} = {1}; e multiplo de 3."
                     <=> DigitSum(arg.n) % 3 = 0
              /\ DigitSum(arg.n) % 3 = 0 <=> ret.out.answer = <<"S">>

C13_Witness ==
    /\ ret.fn = "generateExercise"
    /\ arg = [n |-> 15, by |-> 3]
    /\ ret.out.answer = <<"S">>
    /\ ret.out.explain.args = <<15, 6>>

----------------------------------------------------------------------------
(* The yes/no exercises *)

\* the true answer of a yes/no exercise, from the numbers in its prompt
TrulyYes(e) ==
    IF e.type = "divisibilidade"
    THEN e.prompt.args[1] % e.prompt.args[2] = 0
    ELSE SievePrime(e.prompt.args[1])

\* C15: for a divisibility or primality exercise, whose prompt ends in
\* "(S/N)", the letter S typed when the true answer is yes, or N when it is
\* no, in either case, is graded correct.
C15_LetterAnswers ==
    (/\ GradedText
     /\ ex.type \in {"divisibilidade", "primos"}
     /\ toLowerCase(trim(input)) = (IF TrulyYes(ex) THEN <<"s">> ELSE <<"n">>))
        => feedback.correct

----------------------------------------------------------------------------
(* The record and the built-in defaults *)

\* C17: the record loadStats returns is independent of defaultStats:
\* whatever was submitted, awarded and saved on a record loaded while
\* nothing was stored, defaultStats is as the module created it, and
\* loadStats with nothing stored returns zero counters for every topic, no
\* medal and no achievement.
C17_DefaultsUntouched ==
    LET l == loadStats(NothingStored, defaultStats).rec
    IN  /\ defaultStats = DefaultNested
        /\ \A t \in TypeSet : l.perTopic[t] = [correct |-> 0, wrong |-> 0]
        /\ l.medals = <<>>
        /\ l.achievements = {}

----------------------------------------------------------------------------
(* The rounds of the quiz page *)

\* a step of next: the feedback and the text are cleared on a page that
\* stays on screen
NextStep == round >= 1 /\ \E e \in QuizPool : next(e)

----------------------------------------------------------------------------
(* The prime game *)

\* the primes of the grid, by the definition
GridPrimes == {c \in 0..100 : SievePrime(c)}

\* every prime of the grid is marked correct
AllFound(cl) == \A p \in GridPrimes : p \in DOMAIN cl /\ cl[p] = "correct"

\* C14: in the prime game, after any clicks: an answered cell keeps its
\* mark; a cell is marked correct exactly when its number is prime; a first
\* click on a prime adds exactly 2 XP and any other click none; the flag
\* primeHuntCompleted is set, and the medal and the 50 XP granted once,
\* exactly when all primes of 0..100 are marked correct, whatever the number
\* of other cells clicked.
C14_PrimeGame ==
    /\ [](route = "/primos" =>
            /\ DOMAIN clicked \subseteq 0..100
            /\ \A c \in DOMAIN clicked :
                   /\ clicked[c] \in {"correct", "wrong"}
                   /\ clicked[c] = "correct" <=> c \in GridPrimes
            /\ Cur.primeHuntCompleted <=> AllFound(clicked)
            /\ Includes(Cur.medals, "medal_caca_primos_0_100") <=> AllFound(clicked)
            /\ "medal_caca_primos_0_100" \in Cur.achievements <=> AllFound(clicked)
            /\ Cur.xp = 2 * Cardinality(DOMAIN clicked \cap GridPrimes)
                        + (IF AllFound(clicked) THEN 50 ELSE 0))
    /\ [][route = "/primos" =>
            /\ \A c \in DOMAIN clicked : c \in DOMAIN clicked' /\ clicked'[c] = clicked[c]
            /\ Cardinality(DOMAIN clicked') <= Cardinality(DOMAIN clicked) + 1
            /\ Cur'.xp - Cur.xp =
                   2 * Cardinality((DOMAIN clicked' \ DOMAIN clicked) \cap GridPrimes)
                   + (IF AllFound(clicked') /\ ~AllFound(clicked) THEN 50 ELSE 0)]_vars

\* all 25 primes were found with 0 and 91 clicked on the way
C14_Witness ==
    /\ route = "/primos"
    /\ AllFound(clicked)
    /\ 0 \in DOMAIN clicked /\ clicked[0] = "wrong"
    /\ 91 \in DOMAIN clicked /\ clicked[91] = "wrong"
    /\ 100 \notin DOMAIN clicked
    /\ Cur.primeHuntCompleted
    /\ Cur.xp = 100
    /\ Cur.medals = <<"medal_caca_primos_0_100">>
    /\ msg = Parabens

----------------------------------------------------------------------------
(* The animated factorization *)

\* C16: after any "next step", ticks of the auto-play and changes of n, the
\* 10 XP are granted only at the step that puts the last step of the number
\* in the input on screen, once per completed number; a change of n alone
\* grants nothing.
C16_AwardOnCompletion ==
    [][Cur'.xp # Cur.xp =>
          /\ Cur'.xp = Cur.xp + 10
          /\ fatN' = fatN
          /\ shown < Len(steps)
          /\ shown' = Len(steps')]_vars

----------------------------------------------------------------------------
(* The steps of the animated factorization *)

\* C18: for every integer n >= 2, buildSteps(n) is as long as
\* primeFactors(n) and its i-th step divides by the i-th prime factor; each
\* step has value = factor * remaining, the first value is n, each later
\* value is the remaining of the step before, and the last remaining is 1;
\* so the first k steps match the first k prime factors, for every k.
C18_StepsMatchFactors ==
    (ret.fn = "buildSteps" /\ arg >= 2) =>
        LET st == ret.out
            pf == primeFactors(arg)
        IN  /\ Len(st) = Len(pf)
            /\ Len(st) >= 1
            /\ \A i \in 1..Len(st) :
                   /\ st[i].factor = pf[i]
                   /\ st[i].value = st[i].factor * st[i].remaining
                   /\ i > 1 => st[i].value = st[i - 1].remaining
            /\ st[1].value = arg
            /\ st[Len(st)].remaining = 1
            /\ \A k \in 0..Len(st) :
                   [i \in 1..k |-> st[i].factor] = SubSeq(pf, 1, k)

C18_Witness ==
    /\ ret.fn = "buildSteps"
    /\ arg = 84
    /\ ret.out = <<[value |-> 84, factor |-> 2, remaining |-> 42],
                   [value |-> 42, factor |-> 2, remaining |-> 21],
                   [value |-> 21, factor |-> 3, remaining |-> 7],
                   [value |-> 7, factor |-> 7, remaining |-> 1]>>

----------------------------------------------------------------------------
(* The medals *)

\* every identifier occurs at most once in the list and has its date
UniqueMedals(s) ==
    /\ \A i \in 1..Len(s.medals) : \A j \in 1..Len(s.medals) :
           s.medals[i] = s.medals[j] => i = j
    /\ \A i \in 1..Len(s.medals) : s.medals[i] \in s.achievements

\* C12: the medals of a stats record are a set of unique identifiers: after
\* any awards (the same medal at the end of several series, both quiz medals
\* in one series, the medal of the prime game) the list holds every
\* identifier at most once, and every identifier in it has an entry in
\* achievements; so has the record that was saved.
C12_UniqueMedals ==
    /\ UniqueMedals(Cur)
    /\ UniqueMedals(Stored)

\* a series of 5 out of 5 closed twice, and the prime game was completed
C12_Witness ==
    /\ route = "/primos"
    /\ Cur.primeHuntCompleted
    /\ Cur.sessions = 3
    /\ Cur.bestFiveScore = 5
    /\ Cur.totalQuestions = 10
    /\ Cur.correctQuestions = 10
    /\ Cur.medals = <<"medal_perfeicao_5_de_5", "medal_quase_lagrimas",
                      "medal_caca_primos_0_100">>

====
